---- MODULE Spec2Model ----
(***************************************************************************)
(* Sidetree operation store (MongoDbOperationStore), the content fetch     *)
(* result type (IFetchResult) and the bitcoin service's HTTP error         *)
(* surface, as state machines.                                             *)
(*                                                                         *)
(* The MongoDB server is the environment of the store: a database holding  *)
(* collections, each a multiset of documents with an optional unique       *)
(* index.  Every awaited driver call is one atomic server step, except     *)
(* the unordered bulk insert, whose documents are written one at a time    *)
(* so that two callers' batches interleave.                                *)
(***************************************************************************)
EXTENDS Integers, Sequences, FiniteSets, Bags, TLC

\* ---------------------------------------------------------------- bounds
MaxTxn == 2          \* transaction numbers are 0..MaxTxn
MaxBatch == 2        \* operations in one put
MaxDocs == 3         \* documents in the collection, in-flight inserts included
MaxFileSize == 3     \* bytes of a file in content-addressable storage
MaxHeight == 3       \* blocks of the chain

\* ------------------------------------------------------ values and inputs
\* `transactionNumber?: number` left out by the caller.
Undefined == -1

\* this.collection before initialize() has assigned it.
NoCollection == "undefined"

operationCollectionName == "operations"

DuplicateKeyCode == 11000

\* A write error of the storage layer that is not a duplicate key
\* (DocumentValidationFailure).
OtherWriteErrorCode == 121

DIDs == {"did1", "did2"}
TxnNumbers == 0 .. MaxTxn
OpIndexes == {0, 1}
Variants == {"a", "b"}
Clients == {"c1", "c2"}

\* An anchored Operation: the operation buffer names the DID it is about.
Operation(did, txn, idx, v) ==
    [didUniqueSuffix   |-> did,
     operationBuffer   |-> <<did, v>>,
     operationIndex    |-> idx,
     transactionNumber |-> txn,
     transactionTime   |-> IF v = "a" THEN 10 * (txn + 1) ELSE 10 * (txn + 1) + 1,
     batchFileHash     |-> IF v = "a" THEN "QmA" ELSE "QmB"]

\* The operations a single sequential caller puts: in every transaction, two
\* operations of did1 and one of did2.
Operations ==
    {Operation("did1", t, i, "a") : t \in TxnNumbers, i \in OpIndexes}
        \cup {Operation("did2", t, 0, "a") : t \in TxnNumbers}

\* The operations two racing callers put: one key, two contents.
RaceOperations ==
    {Operation("did1", 1, 0, v) : v \in Variants}

\* The batches of n operations.
Batches(ops, n) == [1 .. n -> ops]

\* ------------------------------------------------------------ conversions
\* Long.fromNumber: NaN (an undefined argument) is Long.ZERO.
LongFromNumber(n) == IF n = Undefined THEN [long |-> 0] ELSE [long |-> n]

\* find() promotes longs to numbers.
LongToNumber(l) == l.long

\* new Binary(buffer)
Binary(buffer) == [buffer |-> buffer]

convertToMongoOperation(operation) ==
    [didUniqueSuffix           |-> operation.didUniqueSuffix,
     operationBufferBsonBinary |-> Binary(operation.operationBuffer),
     opIndex                   |-> operation.operationIndex,
     transactionNumber         |-> LongFromNumber(operation.transactionNumber),
     transactionTime           |-> operation.transactionTime,
     batchFileHash             |-> operation.batchFileHash]

\* Operation.createAnchoredOperation(buffer, resolvedTransaction, operationIndex):
\* the DID is read from the operation buffer.
createAnchoredOperation(buffer, resolvedTransaction, operationIndex) ==
    [didUniqueSuffix   |-> buffer[1],
     operationBuffer   |-> buffer,
     operationIndex    |-> operationIndex,
     transactionNumber |-> resolvedTransaction.transactionNumber,
     transactionTime   |-> resolvedTransaction.transactionTime,
     batchFileHash     |-> resolvedTransaction.batchFileHash]

\* A conversion that takes the transaction time from the transaction number.
convertToOperationMixingFields(mongoOperation) ==
    createAnchoredOperation(
        mongoOperation.operationBufferBsonBinary.buffer,
        [transactionNumber   |-> LongToNumber(mongoOperation.transactionNumber),
         transactionTime     |-> LongToNumber(mongoOperation.transactionNumber),
         transactionTimeHash |-> "unavailable",
         anchorFileHash      |-> "unavailable",
         batchFileHash       |-> mongoOperation.batchFileHash],
        mongoOperation.opIndex)

convertToOperation(mongoOperation) ==
    createAnchoredOperation(
        mongoOperation.operationBufferBsonBinary.buffer,
        [transactionNumber   |-> LongToNumber(mongoOperation.transactionNumber),
         transactionTime     |-> mongoOperation.transactionTime,
         transactionTimeHash |-> "unavailable",
         anchorFileHash      |-> "unavailable",
         batchFileHash       |-> mongoOperation.batchFileHash],
        mongoOperation.opIndex)

\* ----------------------------------------------------------------- state
VARIABLES
    collectionNames,   \* the collections of the database (db.collections())
    uniqueIndex,       \* the operation collection has its unique index
    documents,         \* the operation collection: a bag of IMongoOperation
    collection,        \* this.collection
    call,              \* per client: the call it is in or has last completed
    batch,             \* per client: the bulk operation's inserts not yet written
    writeErrors,       \* per client: the write errors of its bulk operation
    lastPut,           \* history: per client, the operations of its latest put
    cas,               \* the addresses content-addressable storage can serve
    fetchResult,       \* the IFetchResult of the latest read
    httpPhase,         \* the GET /transactions request in progress
    httpRequest,       \* its query parameters
    serviceResult,     \* what blockchainService.transactions did
    httpResponse,      \* the response sent
    chain,             \* the chain's current view: the block hash of every height
    syncResult         \* what the latest transactions() call did

storeVars == <<collectionNames, uniqueIndex, documents, collection,
               call, batch, writeErrors>>
fetchVars == <<cas, fetchResult>>
httpVars == <<httpPhase, httpRequest, serviceResult, httpResponse>>
syncVars == <<chain, syncResult>>
vars == <<storeVars, lastPut, fetchVars, httpVars, syncVars>>

NoCall ==
    [name |-> "none", status |-> "returned",
     didUniqueSuffix |-> "", transactionNumber |-> Undefined,
     error |-> "", value |-> <<>>]

NoPut ==
    [operations |-> <<>>, raced |-> FALSE, keys |-> {},
     rollback |-> Undefined, crossed |-> FALSE,
     stage |-> "none", checkpoint |-> Undefined, previous |-> Undefined,
     base |-> EmptyBag]

\* ------------------------------------------------------ the storage layer
\* The unique index of initialize(): { didUniqueSuffix: 1, transactionNumber: 1, opIndex: 1 }.
IndexKey(doc) == <<doc.didUniqueSuffix, doc.transactionNumber, doc.opIndex>>

FilterBag(docs, Keep(_)) ==
    [d \in {x \in BagToSet(docs) : Keep(x)} |-> docs[d]]

\* An upsert in the place of the insert: a document of the same key is
\* replaced.
InsertOneReplacing(docs, unique, doc) ==
    [documents |-> FilterBag(docs, LAMBDA d : IndexKey(d) # IndexKey(doc))
                       (+) SetToBag({doc}),
     code |-> 0]

\* One insert of a bulk operation at the server: rejected with a duplicate
\* key error when the unique index holds the document's key.
InsertOne(docs, unique, doc) ==
    IF unique /\ \E d \in BagToSet(docs) : IndexKey(d) = IndexKey(doc)
    THEN [documents |-> docs, code |-> DuplicateKeyCode]
    ELSE [documents |-> docs (+) SetToBag({doc}), code |-> 0]

\* The error batch.execute() rejects with when writes failed: a
\* BulkWriteError carrying the code of the first write error.
BulkWriteError(errors) == [name |-> "BulkWriteError", code |-> errors[1]]

\* put's catch block: everything but a BulkWriteError of code 11000 is rethrown.
Rethrown(error) == error.name # "BulkWriteError" \/ error.code # DuplicateKeyCode

\* A sort key of find().sort(): a field the document lacks sorts as null,
\* before every number.
SortValue(doc, field) ==
    IF field \notin DOMAIN doc THEN <<0, 0>>
    ELSE IF field = "transactionNumber" THEN <<1, LongToNumber(doc[field])>>
    ELSE <<1, doc[field]>>

ValueLess(a, b) == a[1] < b[1] \/ (a[1] = b[1] /\ a[2] < b[2])

\* get's sort specification.
SortSpec == <<"transactionNumber", "operationIndex">>

\* doc1 sorts strictly before doc2 under the sort specification.
SortsBefore(doc1, doc2, spec) ==
    \E i \in 1 .. Len(spec) :
        /\ ValueLess(SortValue(doc1, spec[i]), SortValue(doc2, spec[i]))
        /\ \A j \in 1 .. i - 1 : SortValue(doc1, spec[j]) = SortValue(doc2, spec[j])

\* The arrays a sorted cursor may produce: every document once per copy, no
\* document after one it sorts strictly before.  Documents that compare
\* equal come in any order.
SortedArrays(docs, spec) ==
    LET n == BagCardinality(docs)
        S == BagToSet(docs)
    IN  {s \in [1 .. n -> S] :
            /\ \A d \in S : Cardinality({i \in 1 .. n : s[i] = d}) = docs[d]
            /\ \A i, j \in 1 .. n : i < j => ~SortsBefore(s[j], s[i], spec)}

\* find({}): the filter left out.
FindAll(docs, didUniqueSuffix) == docs

\* find({ didUniqueSuffix })
Find(docs, didUniqueSuffix) ==
    FilterBag(docs, LAMBDA d : d.didUniqueSuffix = didUniqueSuffix)

\* if (transactionNumber)
Truthy(n) == n # Undefined /\ n # 0

\* The $gt operator forgotten: { transactionNumber: bound }.
EqualTo(doc, bound) == LongToNumber(doc.transactionNumber) = LongToNumber(bound)

\* $lt in the place of $gt.
LessThan(doc, bound) == LongToNumber(doc.transactionNumber) < LongToNumber(bound)

\* { transactionNumber: { $gt: bound } }
GreaterThan(doc, bound) == LongToNumber(doc.transactionNumber) > LongToNumber(bound)

\* deleteOne in the place of deleteMany: one matching document is removed.
deleteOne(docs, transactionNumber) ==
    LET matching == {d \in BagToSet(docs) :
                        IF Truthy(transactionNumber)
                        THEN LongToNumber(d.transactionNumber) > transactionNumber
                        ELSE TRUE}
    IN  IF matching = {} THEN docs
        ELSE docs (-) SetToBag({CHOOSE d \in matching : TRUE})

\* delete() without the test of its argument: the $gt query in every case.
DeleteQueryUnconditional(transactionNumber, doc) ==
    GreaterThan(doc, LongFromNumber(transactionNumber))

\* The query delete() hands to deleteMany: whether it matches doc.
DeleteQuery(transactionNumber, doc) ==
    IF Truthy(transactionNumber)
    THEN GreaterThan(doc, LongFromNumber(transactionNumber))
    ELSE TRUE

deleteMany(docs, transactionNumber) ==
    FilterBag(docs, LAMBDA d : ~DeleteQuery(transactionNumber, d))

RECURSIVE InFlight(_)
InFlight(cs) ==
    IF cs = {} THEN 0
    ELSE LET c == CHOOSE x \in cs : TRUE
         IN  Len(batch[c]) + InFlight(cs \ {c})

Idle(c) == call[c].status # "running"

\* ------------------------------------------------------------ operations
StoreInit ==
    /\ collectionNames = {}
    /\ uniqueIndex = FALSE
    /\ documents = EmptyBag
    /\ collection = NoCollection
    /\ call = [c \in Clients |-> NoCall]
    /\ batch = [c \in Clients |-> <<>>]
    /\ writeErrors = [c \in Clients |-> <<>>]
    /\ lastPut = [c \in Clients |-> NoPut]

\* put settles: it throws the error batch.execute() rejected with, or
\* swallows it and returns.  The call keeps the error in both cases.
Settled(c, error) ==
    [call EXCEPT ![c] = [@ EXCEPT !.status = IF Rethrown(error) THEN "threw"
                                             ELSE "returned",
                                  !.error = error.name]]

\* initialize() without its createIndex call.
initializeWithoutIndex(c) ==
    /\ Idle(c)
    /\ collection' = operationCollectionName
    /\ collectionNames' = collectionNames \cup {operationCollectionName}
    /\ call' = [call EXCEPT ![c] = [NoCall EXCEPT !.name = "initialize"]]
    /\ UNCHANGED <<uniqueIndex, documents, batch, writeErrors, lastPut,
                   fetchVars, httpVars, syncVars>>

\* initialize(): uses the operation collection when it exists, else creates
\* it and then its unique index; createIndex may reject, after this.collection
\* has been assigned.
initialize(c) ==
    /\ Idle(c)
    /\ collection' = operationCollectionName
    /\ IF operationCollectionName \in collectionNames
       THEN /\ UNCHANGED <<collectionNames, uniqueIndex>>
            /\ call' = [call EXCEPT ![c] = [NoCall EXCEPT !.name = "initialize"]]
       ELSE /\ collectionNames' = collectionNames \cup {operationCollectionName}
            /\ \E created \in BOOLEAN :
                /\ uniqueIndex' = created
                /\ call' = [call EXCEPT ![c] =
                       IF created THEN [NoCall EXCEPT !.name = "initialize"]
                       ELSE [NoCall EXCEPT !.name = "initialize", !.status = "threw",
                                           !.error = "MongoError"]]
    /\ UNCHANGED <<documents, batch, writeErrors, lastPut, fetchVars, httpVars, syncVars>>

\* The collection has room for n more documents.
Room(n) == BagCardinality(documents) + InFlight(Clients) + n <= MaxDocs

\* put(operations), up to batch.execute(): this.collection! throws a
\* TypeError before initialize().
put(c, operations) ==
    /\ Idle(c)
    /\ Room(Len(operations))
    /\ IF collection = NoCollection
       THEN /\ call' = [call EXCEPT ![c] =
                  [NoCall EXCEPT !.name = "put", !.status = "threw",
                                 !.error = "TypeError"]]
            /\ UNCHANGED batch
       ELSE /\ call' = [call EXCEPT ![c] =
                  [NoCall EXCEPT !.name = "put", !.status = "running"]]
            /\ batch' = [batch EXCEPT ![c] =
                  [i \in 1 .. Len(operations) |-> convertToMongoOperation(operations[i])]]
    /\ writeErrors' = [writeErrors EXCEPT ![c] = <<>>]
    /\ UNCHANGED <<collectionNames, uniqueIndex, documents, collection,
                   fetchVars, httpVars, syncVars>>

\* An ordered bulk operation in the place of the unordered one: the first
\* write error ends it, and the inserts after it are not attempted.
executeInsertOrdered(c) ==
    /\ call[c].status = "running"
    /\ batch[c] # <<>>
    /\ LET r == InsertOne(documents, uniqueIndex, Head(batch[c]))
       IN  /\ documents' = r.documents
           /\ writeErrors' = [writeErrors EXCEPT ![c] =
                  IF r.code = 0 THEN @ ELSE Append(@, r.code)]
           /\ batch' = [batch EXCEPT ![c] = IF r.code = 0 THEN Tail(@) ELSE <<>>]
    /\ UNCHANGED <<collectionNames, uniqueIndex, collection, call, lastPut,
                   fetchVars, httpVars, syncVars>>

\* batch.execute(), one insert: the storage layer writes the document or
\* rejects it as a duplicate.  An unordered bulk operation goes on after a
\* write error.
executeInsert(c) ==
    /\ call[c].status = "running"
    /\ batch[c] # <<>>
    /\ LET r == InsertOne(documents, uniqueIndex, Head(batch[c]))
       IN  /\ documents' = r.documents
           /\ writeErrors' = [writeErrors EXCEPT ![c] =
                  IF r.code = 0 THEN @ ELSE Append(@, r.code)]
    /\ batch' = [batch EXCEPT ![c] = Tail(@)]
    /\ UNCHANGED <<collectionNames, uniqueIndex, collection, call, lastPut,
                   fetchVars, httpVars, syncVars>>

\* batch.execute(), one insert the storage layer rejects for another reason
\* than a duplicate key.
executeReject(c) ==
    /\ call[c].status = "running"
    /\ batch[c] # <<>>
    /\ writeErrors' = [writeErrors EXCEPT ![c] = Append(@, OtherWriteErrorCode)]
    /\ batch' = [batch EXCEPT ![c] = Tail(@)]
    /\ UNCHANGED <<collectionNames, uniqueIndex, documents, collection, call,
                   lastPut, fetchVars, httpVars, syncVars>>

\* batch.execute() rejects with an error that is no BulkWriteError (the
\* connection is lost): the inserts not yet written are dropped.
executeFail(c) ==
    /\ call[c].status = "running"
    /\ batch[c] # <<>>
    /\ call' = Settled(c, [name |-> "MongoNetworkError", code |-> 0])
    /\ batch' = [batch EXCEPT ![c] = <<>>]
    /\ UNCHANGED <<collectionNames, uniqueIndex, documents, collection,
                   writeErrors, lastPut, fetchVars, httpVars, syncVars>>

\* batch.execute() settles and put's try/catch decides.
putReturn(c) ==
    /\ call[c].status = "running"
    /\ batch[c] = <<>>
    /\ IF writeErrors[c] = <<>>
       THEN call' = [call EXCEPT ![c] = [@ EXCEPT !.status = "returned"]]
       ELSE call' = Settled(c, BulkWriteError(writeErrors[c]))
    /\ UNCHANGED <<collectionNames, uniqueIndex, documents, collection, batch,
                   writeErrors, lastPut, fetchVars, httpVars, syncVars>>

\* get(didUniqueSuffix)
get(c, didUniqueSuffix) ==
    /\ Idle(c)
    /\ IF collection = NoCollection
       THEN call' = [call EXCEPT ![c] =
                [NoCall EXCEPT !.name = "get", !.status = "threw",
                               !.didUniqueSuffix = didUniqueSuffix, !.error = "TypeError"]]
       ELSE \E mongoOperations \in SortedArrays(Find(documents, didUniqueSuffix), SortSpec) :
              call' = [call EXCEPT ![c] =
                [NoCall EXCEPT !.name = "get", !.didUniqueSuffix = didUniqueSuffix,
                               !.value = [i \in 1 .. Len(mongoOperations) |->
                                             convertToOperation(mongoOperations[i])]]]
    /\ UNCHANGED <<collectionNames, uniqueIndex, documents, collection, batch,
                   writeErrors, lastPut, fetchVars, httpVars, syncVars>>

\* delete(transactionNumber?).  The call's value is deleteMany's
\* deletedCount, which delete() awaits and drops.
delete(c, transactionNumber) ==
    /\ Idle(c)
    /\ IF collection = NoCollection
       THEN /\ call' = [call EXCEPT ![c] =
                  [NoCall EXCEPT !.name = "delete", !.status = "threw",
                                 !.transactionNumber = transactionNumber,
                                 !.error = "TypeError"]]
            /\ UNCHANGED documents
       ELSE /\ documents' = deleteMany(documents, transactionNumber)
            /\ call' = [call EXCEPT ![c] =
                  [NoCall EXCEPT !.name = "delete",
                                 !.transactionNumber = transactionNumber,
                                 !.value = <<BagCardinality(documents)
                                             - BagCardinality(documents')>>]]
    /\ UNCHANGED <<collectionNames, uniqueIndex, collection, batch, writeErrors,
                   fetchVars, httpVars, syncVars>>

\* ---------------------------------------------- content fetch result model
FetchResultCode ==
    {"success", "content_not_found", "content_hash_invalid",
     "content_exceeds_maximum_allowed_size", "content_not_a_file"}

\* interface IFetchResult { code: FetchResultCode; content?: Buffer }
IFetchResult ==
    [code : FetchResultCode] \cup [code : FetchResultCode, content : Seq(Nat)]

NoFetch == [code |-> "none"]

\* Addresses of content-addressable storage: files of every size, a
\* directory, and an address that is no content hash.
FileAddresses == {<<"file", n>> : n \in 1 .. MaxFileSize}
DirectoryAddress == <<"directory", 0>>
MalformedAddress == <<"malformed", 0>>
Addresses == FileAddresses \cup {DirectoryAddress, MalformedAddress}

\* The bytes stored at a file address.
Content(address) == [i \in 1 .. address[2] |-> i]

\* A read that hands over the bytes it had fetched when it gave up.
FetchOutcomeKeepingPartial(address, maxSizeInBytes, available) ==
    IF address = MalformedAddress THEN [code |-> "content_hash_invalid"]
    ELSE IF address \notin available THEN [code |-> "content_not_found"]
    ELSE IF address = DirectoryAddress THEN [code |-> "content_not_a_file"]
    ELSE IF address[2] > maxSizeInBytes
    THEN [code |-> "content_exceeds_maximum_allowed_size",
          content |-> SubSeq(Content(address), 1, maxSizeInBytes)]
    ELSE [code |-> "success", content |-> Content(address)]

\* The outcome of fetching address with at most maxSizeInBytes bytes.
FetchOutcome(address, maxSizeInBytes, available) ==
    IF address = MalformedAddress THEN [code |-> "content_hash_invalid"]
    ELSE IF address \notin available THEN [code |-> "content_not_found"]
    ELSE IF address = DirectoryAddress THEN [code |-> "content_not_a_file"]
    ELSE IF address[2] > maxSizeInBytes
    THEN [code |-> "content_exceeds_maximum_allowed_size"]
    ELSE [code |-> "success", content |-> Content(address)]

FetchInit ==
    /\ cas = {}
    /\ fetchResult = NoFetch

\* Another node publishes an object.
casPublish(address) ==
    /\ address \in (FileAddresses \cup {DirectoryAddress}) \ cas
    /\ cas' = cas \cup {address}
    /\ UNCHANGED <<fetchResult, storeVars, lastPut, httpVars, syncVars>>

\* The storage network loses an object.
casLose(address) ==
    /\ address \in cas
    /\ cas' = cas \ {address}
    /\ UNCHANGED <<fetchResult, storeVars, lastPut, httpVars, syncVars>>

read(address, maxSizeInBytes) ==
    /\ fetchResult' = FetchOutcome(address, maxSizeInBytes, cas)
    /\ UNCHANGED <<cas, storeVars, lastPut, httpVars, syncVars>>

\* ------------------------------------------------- HTTP-facing error surface
\* ResponseStatus
BadRequest == 400
ServerError == 500
Succeeded == 200

InvalidTransactionNumberOrTimeHash == "invalid_transaction_number_or_time_hash"

\* new RequestError(status, code)
RequestError(status, code) == [name |-> "RequestError", status |-> status, code |-> code]

\* An error that is no RequestError.
InternalError(name) == [name |-> name, status |-> 0, code |-> ""]

\* The fake of blockchainService.transactions: it throws the invalid hash error.
fakeGetTransactionsMethod == RequestError(BadRequest, InvalidTransactionNumberOrTimeHash)

NoResult == [name |-> "none", status |-> 0, code |-> ""]
TransactionsResult == [name |-> "transactions", status |-> 0, code |-> ""]

NoResponse == [status |-> 0, body |-> {}]

\* JSON.stringify of an object of string fields, as its set of members.
JsonStringify(object) == {<<f, object[f]>> : f \in DOMAIN object}

\* JSON.parse
JsonParse(text) ==
    [f \in {m[1] : m \in text} |-> CHOOSE v \in {m[2] : m \in text} : <<f, v>> \in text]

\* A handler that answers every error alike.
RenderAllAsServerError(result) ==
    IF result.name = "transactions"
    THEN [status |-> Succeeded, body |-> JsonStringify([moreTransactions |-> "false"])]
    ELSE [status |-> ServerError, body |-> {}]

\* The response to what blockchainService.transactions did: a RequestError
\* gives its status and its code in a JSON body, any other error a server
\* error without detail.
Render(result) ==
    IF result.name = "transactions"
    THEN [status |-> Succeeded, body |-> JsonStringify([moreTransactions |-> "false"])]
    ELSE IF result.name = "RequestError"
    THEN [status |-> result.status, body |-> JsonStringify([code |-> result.code])]
    ELSE [status |-> ServerError, body |-> {}]

Hashes == {"", "dummyHash", "otherHash", "staleHash"}

HttpInit ==
    /\ httpPhase = "idle"
    /\ httpRequest = [since |-> Undefined, transactionTimeHash |-> ""]
    /\ serviceResult = NoResult
    /\ httpResponse = NoResponse

\* GET /transactions?since=..&transaction-time-hash=..
getTransactions(since, transactionTimeHash) ==
    /\ httpPhase \in {"idle", "responded"}
    /\ httpPhase' = "fetching"
    /\ httpRequest' = [since |-> since, transactionTimeHash |-> transactionTimeHash]
    /\ serviceResult' = NoResult
    /\ httpResponse' = NoResponse
    /\ UNCHANGED <<storeVars, lastPut, fetchVars, syncVars>>

\* blockchainService.transactions returns.
transactionsReturns ==
    /\ httpPhase = "fetching"
    /\ httpPhase' = "fetched"
    /\ serviceResult' = TransactionsResult
    /\ UNCHANGED <<httpRequest, httpResponse, storeVars, lastPut, fetchVars, syncVars>>

\* blockchainService.transactions throws.
transactionsThrows(error) ==
    /\ httpPhase = "fetching"
    /\ httpPhase' = "fetched"
    /\ serviceResult' = error
    /\ UNCHANGED <<httpRequest, httpResponse, storeVars, lastPut, fetchVars, syncVars>>

\* The handler sets the response.
respond ==
    /\ httpPhase = "fetched"
    /\ httpPhase' = "responded"
    /\ httpResponse' = Render(serviceResult)
    /\ UNCHANGED <<httpRequest, serviceResult, storeVars, lastPut, fetchVars, syncVars>>

\* ------------------------------------- blockchain synchronization service
BlockHashes == {"hashA", "hashB"}

\* The anchoring transaction confirmed at a height: one per block, numbered
\* by its height, its time-hash the hash of its block.
Transaction(blocks, height) ==
    [transactionNumber   |-> height,
     transactionTime     |-> height,
     transactionTimeHash |-> blocks[height]]

\* The checkpoint's height resolves and the chain's hash there is the one given.
CheckpointValid(blocks, since, transactionTimeHash) ==
    /\ since \in 1 .. Len(blocks)
    /\ blocks[since] = transactionTimeHash

\* The anchoring transactions after a transaction number, in chain order.
TransactionsAfter(blocks, since) ==
    [i \in 1 .. Len(blocks) - since |-> Transaction(blocks, since + i)]

\* A service that checks that the checkpoint's height resolves, not its hash.
TransactionsOutcomeTrustingHeight(blocks, since, transactionTimeHash) ==
    IF since = Undefined
    THEN [status |-> "returned", error |-> "", transactions |-> TransactionsAfter(blocks, 0)]
    ELSE IF since \in 1 .. Len(blocks)
    THEN [status |-> "returned", error |-> "", transactions |-> TransactionsAfter(blocks, since)]
    ELSE [status |-> "threw", error |-> InvalidTransactionNumberOrTimeHash,
          transactions |-> <<>>]

\* What transactions(since, transactionTimeHash) does on the chain's view:
\* without a checkpoint, the transactions from the beginning; with one, the
\* transactions after it when the checkpoint is valid, else the invalid
\* transaction number or time hash error.
TransactionsOutcome(blocks, since, transactionTimeHash) ==
    IF since = Undefined
    THEN [status |-> "returned", error |-> "", transactions |-> TransactionsAfter(blocks, 0)]
    ELSE IF CheckpointValid(blocks, since, transactionTimeHash)
    THEN [status |-> "returned", error |-> "", transactions |-> TransactionsAfter(blocks, since)]
    ELSE [status |-> "threw", error |-> InvalidTransactionNumberOrTimeHash,
          transactions |-> <<>>]

NoSync ==
    [status |-> "none", error |-> "", transactions |-> <<>>,
     since |-> Undefined, transactionTimeHash |-> ""]

SyncInit ==
    /\ chain = <<>>
    /\ syncResult = NoSync

\* The chain confirms a block.
mineBlock(hash) ==
    /\ Len(chain) < MaxHeight
    /\ chain' = Append(chain, hash)
    /\ UNCHANGED <<syncResult, storeVars, lastPut, fetchVars, httpVars>>

\* The chain reorganizes: the blocks above a height are dropped.
reorganize(height) ==
    /\ height < Len(chain)
    /\ chain' = SubSeq(chain, 1, height)
    /\ UNCHANGED <<syncResult, storeVars, lastPut, fetchVars, httpVars>>

\* blockchainService.transactions(since, transactionTimeHash), the chain
\* node answering: one round trip, the whole list or the failure.
transactions(since, transactionTimeHash) ==
    /\ (since = Undefined) <=> (transactionTimeHash = "")
    /\ syncResult' =
          [status              |-> TransactionsOutcome(chain, since, transactionTimeHash).status,
           error               |-> TransactionsOutcome(chain, since, transactionTimeHash).error,
           transactions        |-> TransactionsOutcome(chain, since, transactionTimeHash).transactions,
           since               |-> since,
           transactionTimeHash |-> transactionTimeHash]
    /\ UNCHANGED <<chain, storeVars, lastPut, fetchVars, httpVars>>

\* blockchainService.transactions(since, transactionTimeHash), the chain
\* node out of reach.
transactionsUnreachable(since, transactionTimeHash) ==
    /\ (since = Undefined) <=> (transactionTimeHash = "")
    /\ syncResult' =
          [status |-> "threw", error |-> "unreachable", transactions |-> <<>>,
           since |-> since, transactionTimeHash |-> transactionTimeHash]
    /\ UNCHANGED <<chain, storeVars, lastPut, fetchVars, httpVars>>

\* ---------------------------------------------------------- specifications
Init == StoreInit /\ FetchInit /\ HttpInit /\ SyncInit

\* The operation store with one caller: no two calls overlap.
Next ==
    \E c \in {"c1"} :
        \/ initialize(c)
        \/ \E n \in 1 .. MaxBatch :
              /\ Room(n)
              /\ \E operations \in Batches(Operations, n) :
                    put(c, operations) /\ UNCHANGED lastPut
        \/ executeInsert(c)
        \/ executeReject(c)
        \/ executeFail(c)
        \/ putReturn(c)
        \/ \E did \in DIDs : get(c, did)
        \/ \E n \in TxnNumbers \cup {Undefined} : delete(c, n) /\ UNCHANGED lastPut

Spec == Init /\ [][Next]_vars

\* put, with the history of what each caller put, whether another caller's
\* put was in progress during it, and the keys stored when it began.
racingPut(c, operations) ==
    /\ put(c, operations)
    /\ lastPut' = [x \in Clients |->
          IF x = c
          THEN [operations |-> operations,
                raced |-> \E o \in Clients \ {c} : call[o].status = "running",
                keys |-> {IndexKey(d) : d \in BagToSet(documents)},
                rollback |-> Undefined,
                crossed |-> FALSE,
                stage |-> IF lastPut[c].stage = "rolledBack" THEN "resynced" ELSE "none",
                checkpoint |-> lastPut[c].checkpoint,
                previous |-> Undefined,
                base |-> lastPut[c].base]
          ELSE IF call[x].status = "running"
          THEN [lastPut[x] EXCEPT !.raced = TRUE]
          ELSE lastPut[x]]

\* The operation store with two callers whose calls interleave at every
\* write of the storage layer.
NextRace ==
    \E c \in Clients :
        \/ initialize(c)
        \/ \E n \in 1 .. MaxBatch :
              /\ Room(n)
              /\ \E operations \in Batches(RaceOperations, n) :
                    racingPut(c, operations)
        \/ executeInsert(c)
        \/ putReturn(c)
        \/ \E n \in {0} : delete(c, n) /\ UNCHANGED lastPut

SpecRace == Init /\ [][NextRace]_vars

\* The operations a caller puts between rollbacks: one operation of every
\* transaction.
RollbackOperations ==
    {Operation("did1", t, 0, "a") : t \in TxnNumbers}

\* The operations a caller puts while another rolls back to transaction 0
\* or 1: one operation of each of the transactions 1 and 2.
SuffixOperations ==
    {Operation("did1", t, 0, "a") : t \in {1, 2}}

\* delete, with the history of every put begun before it: the transaction
\* number rolled back to, and whether the put was still running.
racingDelete(c, transactionNumber) ==
    /\ delete(c, transactionNumber)
    /\ lastPut' = [x \in Clients |->
          IF call[x].name = "put" /\ collection # NoCollection
          THEN [lastPut[x] EXCEPT !.rollback = transactionNumber,
                                  !.crossed = @ \/ call[x].status = "running"]
          ELSE lastPut[x]]

\* The operation store with one caller that puts and one that rolls back,
\* their calls interleaving at every write of the storage layer.
NextRollback ==
    \/ \E c \in Clients : initialize(c)
    \/ \E n \in 1 .. MaxBatch :
          /\ Room(n)
          /\ \E operations \in Batches(SuffixOperations, n) :
                racingPut("c1", operations)
    \/ executeInsert("c1")
    \/ putReturn("c1")
    \/ \E n \in {0, 1} : racingDelete("c2", n)

SpecRollback == Init /\ [][NextRollback]_vars

\* The operations of a chain and of the chain that replaces it: one
\* operation of every transaction, in two contents.
ReconcileOperations ==
    {Operation("did1", t, 0, v) : t \in TxnNumbers, v \in Variants}

\* delete, with the history a reconciliation needs: the checkpoint rolled
\* back to, the documents stored before, and the checkpoint of the delete
\* that this one follows at once, if any.
reconcilingDelete(c, transactionNumber) ==
    /\ delete(c, transactionNumber)
    /\ lastPut' = [lastPut EXCEPT ![c] =
          [@ EXCEPT !.stage = "rolledBack",
                    !.checkpoint = transactionNumber,
                    !.previous = IF call[c].name = "delete" /\ call[c].status = "returned"
                                 THEN call[c].transactionNumber
                                 ELSE Undefined,
                    !.base = documents]]

\* The operation store with one caller that rolls back and re-syncs.
NextReconcile ==
    \E c \in {"c1"} :
        \/ initialize(c)
        \/ \E n \in 1 .. MaxBatch :
              /\ Room(n)
              /\ \E operations \in Batches(ReconcileOperations, n) :
                    racingPut(c, operations)
        \/ executeInsert(c)
        \/ putReturn(c)
        \/ \E n \in TxnNumbers : reconcilingDelete(c, n)

SpecReconcile == Init /\ [][NextReconcile]_vars

\* The operations of batches that mix stored and new keys: two keys, each in
\* two contents.
MixedOperations ==
    {Operation("did1", t, 0, v) : t \in {0, 1}, v \in Variants}

\* The operation store with one caller whose puts are remembered.
NextPut ==
    \E c \in {"c1"} :
        \/ initialize(c)
        \/ \E n \in 1 .. MaxBatch :
              /\ Room(n)
              /\ \E operations \in Batches(MixedOperations, n) :
                    racingPut(c, operations)
        \/ executeInsert(c)
        \/ putReturn(c)
        \/ \E did \in DIDs : get(c, did)
        \/ \E n \in {Undefined} : delete(c, n) /\ UNCHANGED lastPut

SpecPut == Init /\ [][NextPut]_vars

\* The operation store with one caller whose rollbacks are remembered.
NextCompose ==
    \E c \in {"c1"} :
        \/ initialize(c)
        \/ \E n \in 1 .. MaxBatch :
              /\ Room(n)
              /\ \E operations \in Batches(RollbackOperations, n) :
                    put(c, operations) /\ UNCHANGED lastPut
        \/ executeInsert(c)
        \/ putReturn(c)
        \/ \E n \in TxnNumbers : reconcilingDelete(c, n)

SpecCompose == Init /\ [][NextCompose]_vars

\* Content-addressable storage and its reads.
NextFetch ==
    \/ \E address \in Addresses : casPublish(address)
    \/ \E address \in Addresses : casLose(address)
    \/ \E address \in Addresses, maxSizeInBytes \in 1 .. MaxFileSize :
          read(address, maxSizeInBytes)

SpecFetch == Init /\ [][NextFetch]_vars

\* The bitcoin service's GET /transactions.
NextHttp ==
    \/ \E since \in TxnNumbers \cup {Undefined}, hash \in Hashes :
          getTransactions(since, hash)
    \/ transactionsReturns
    \/ \E error \in {fakeGetTransactionsMethod, InternalError("Error"),
                     InternalError("TypeError")} : transactionsThrows(error)
    \/ respond

SpecHttp == Init /\ [][NextHttp]_vars

\* The synchronization service over a chain that grows and reorganizes.
NextSync ==
    \/ \E hash \in BlockHashes : mineBlock(hash)
    \/ \E height \in 0 .. MaxHeight : reorganize(height)
    \/ \E since \in (0 .. MaxHeight) \cup {Undefined}, hash \in BlockHashes \cup {""} :
          transactions(since, hash)
    \/ \E since \in (0 .. MaxHeight) \cup {Undefined}, hash \in BlockHashes \cup {""} :
          transactionsUnreachable(since, hash)

SpecSync == Init /\ [][NextSync]_vars

\* ------------------------------------------------------------------ claims
TxnOf(doc) == LongToNumber(doc.transactionNumber)

Ascending(operations) ==
    \A i \in 1 .. Len(operations) - 1 :
        \/ operations[i].transactionNumber < operations[i + 1].transactionNumber
        \/ /\ operations[i].transactionNumber = operations[i + 1].transactionNumber
           /\ operations[i].operationIndex <= operations[i + 1].operationIndex

\* C1: whatever the order a DID's operations were put in, get returns them
\* in ascending order of (transactionNumber, operationIndex); two operations
\* of one transaction come in ascending operationIndex order.
C1_GetAscending ==
    \A c \in Clients :
        (call[c].name = "get" /\ call[c].status = "returned")
            => Ascending(call[c].value)

\* C2: once delete(n) with a given n >= 0 has returned and no put runs, the
\* collection holds no document of a transaction number greater than n.
C2_RollbackRemovesLater ==
    \A c \in Clients :
        (/\ call[c].name = "delete"
         /\ call[c].status = "returned"
         /\ call[c].transactionNumber # Undefined
         /\ \A o \in Clients : Idle(o))
            => \A d \in BagToSet(documents) : TxnOf(d) <= call[c].transactionNumber

\* delete(1) has returned: it removed a document and left another.
C2_Witness ==
    \E c \in Clients :
        /\ call[c].name = "delete"
        /\ call[c].status = "returned"
        /\ call[c].transactionNumber = 1
        /\ call[c].value[1] >= 1
        /\ documents # EmptyBag

\* C3: delete(n) with a given n, n = 0 included, leaves every document of a
\* transaction number <= n as it was: for every DID, what find() yields
\* afterwards is what it yielded before, less the documents above n.
C3_RollbackKeepsEarlier ==
    [][\A c \in Clients, n \in TxnNumbers :
          (delete(c, n) /\ collection # NoCollection)
              => \A did \in DIDs :
                    Find(documents', did)
                        = FilterBag(Find(documents, did), LAMBDA d : TxnOf(d) <= n)]_vars

\* C4: once initialize has assigned the collection, created or found, no
\* two documents share the key (didUniqueSuffix, transactionNumber, opIndex).
C4_UniqueKeys ==
    collection # NoCollection
        => \A d \in BagToSet(documents) :
              /\ documents[d] = 1
              /\ \A e \in BagToSet(documents) : IndexKey(d) = IndexKey(e) => d = e

OnlyDuplicates(errors) == \A i \in 1 .. Len(errors) : errors[i] = DuplicateKeyCode

\* C5: the insert of an operation whose key is already stored leaves the
\* collection as it was, and a put whose only write errors are duplicate
\* keys returns without throwing.
C5_PutIdempotent ==
    [][\A c \in Clients :
          /\ (/\ executeInsert(c)
              /\ \E d \in BagToSet(documents) : IndexKey(d) = IndexKey(Head(batch[c])))
                 => documents' = documents
          /\ (putReturn(c) /\ OnlyDuplicates(writeErrors[c]))
                 => call'[c].status = "returned"]_vars

MongoOperationsOf(operations) ==
    {convertToMongoOperation(operations[i]) : i \in 1 .. Len(operations)}

\* C6: when the latest puts of two callers overlapped and have both
\* settled, both returned without throwing, and of every key both of them
\* put that was not stored before exactly one document is stored, which is
\* one caller's whole document.
C6_RaceOneWinner ==
    \A c1, c2 \in Clients :
        (/\ c1 # c2
         /\ Idle(c1) /\ Idle(c2)
         /\ call[c1].name = "put" /\ call[c2].name = "put"
         /\ lastPut[c1].raced /\ lastPut[c2].raced)
            => /\ call[c1].status = "returned"
               /\ call[c2].status = "returned"
               /\ \A m1 \in MongoOperationsOf(lastPut[c1].operations) :
                  \A m2 \in MongoOperationsOf(lastPut[c2].operations) :
                     (/\ IndexKey(m1) = IndexKey(m2)
                      /\ IndexKey(m1) \notin lastPut[c1].keys \cup lastPut[c2].keys)
                        => LET stored == FilterBag(documents,
                                   LAMBDA d : IndexKey(d) = IndexKey(m1))
                           IN  /\ BagCardinality(stored) = 1
                               /\ BagToSet(stored) \subseteq
                                     MongoOperationsOf(lastPut[c1].operations)
                                        \cup MongoOperationsOf(lastPut[c2].operations)

\* C7: a put on an initialized store throws exactly when the storage layer
\* reported a failure that is no duplicate key: a batch.execute() error that
\* is no bulk write error, or a write error of another code, a duplicate
\* beside it or not.
C7_OnlyDuplicatesSuppressed ==
    \A c \in Clients :
        (call[c].name = "put" /\ Idle(c) /\ call[c].error # "TypeError")
            => (call[c].status = "threw"
                   <=> \/ call[c].error = "MongoNetworkError"
                       \/ ~OnlyDuplicates(writeErrors[c]))

\* C8: once delete() without an argument has returned and no put runs, get
\* yields the empty array for every DID.
C8_RollbackAllEmpties ==
    \A c \in Clients :
        (/\ call[c].name = "delete"
         /\ call[c].status = "returned"
         /\ call[c].transactionNumber = Undefined
         /\ \A o \in Clients : Idle(o))
            => \A did \in DIDs : SortedArrays(Find(documents, did), SortSpec) = {<<>>}

\* delete() has returned, having removed documents.
C8_Witness ==
    \E c \in Clients :
        /\ call[c].name = "delete"
        /\ call[c].status = "returned"
        /\ call[c].transactionNumber = Undefined
        /\ call[c].value[1] >= 2
        /\ documents = EmptyBag

IsError(result) == result.name \notin {"none", "transactions"}

\* C10: the response to GET /transactions with since and
\* transaction-time-hash, when blockchainService.transactions threw the
\* invalid hash error, has status 400 and a JSON body whose code is that
\* error's code; when it threw any other error, a status of the 500 class.
C10_InvalidHashIsBadRequest ==
    (/\ httpPhase = "responded"
     /\ httpRequest.since # Undefined
     /\ httpRequest.transactionTimeHash # ""
     /\ IsError(serviceResult))
        => IF serviceResult.name = "RequestError"
              /\ serviceResult.code = InvalidTransactionNumberOrTimeHash
           THEN /\ httpResponse.status = 400
                /\ "code" \in DOMAIN JsonParse(httpResponse.body)
                /\ JsonParse(httpResponse.body).code = InvalidTransactionNumberOrTimeHash
           ELSE httpResponse.status \in 500 .. 599

\* The test's request has been answered after the invalid hash error.
C10_Witness ==
    /\ httpPhase = "responded"
    /\ httpRequest.since = MaxTxn
    /\ httpRequest.transactionTimeHash = "dummyHash"
    /\ serviceResult = fakeGetTransactionsMethod
    /\ httpResponse.status = BadRequest

\* C11: transactions called with a checkpoint whose time-hash is not the
\* hash the chain has at the checkpoint's height, or whose height does not
\* resolve, throws InvalidTransactionNumberOrTimeHash and yields no
\* transaction; called with a checkpoint that matches, it returns every
\* transaction of the chain after the checkpoint, and only those, in
\* ascending transaction number order.
C11_ReorganizationDetected ==
    [][\A since \in 0 .. MaxHeight, hash \in BlockHashes :
          transactions(since, hash)
              => IF since >= 1 /\ since <= Len(chain) /\ chain[since] = hash
                 THEN /\ syncResult'.status = "returned"
                      /\ \A i \in 1 .. Len(syncResult'.transactions) - 1 :
                            syncResult'.transactions[i].transactionNumber
                                < syncResult'.transactions[i + 1].transactionNumber
                      /\ {syncResult'.transactions[i].transactionNumber :
                              i \in 1 .. Len(syncResult'.transactions)}
                            = {h \in 1 .. Len(chain) : h > since}
                      /\ \A i \in 1 .. Len(syncResult'.transactions) :
                            syncResult'.transactions[i].transactionTimeHash
                                = chain[syncResult'.transactions[i].transactionNumber]
                 ELSE /\ syncResult'.status = "threw"
                      /\ syncResult'.error = InvalidTransactionNumberOrTimeHash
                      /\ syncResult'.transactions = <<>>]_vars

\* A checkpoint taken before a reorganization was refused afterwards: its
\* height resolves, to another hash.
C11_Witness ==
    /\ syncResult.status = "threw"
    /\ syncResult.error = InvalidTransactionNumberOrTimeHash
    /\ syncResult.since \in 1 .. Len(chain)
    /\ chain[syncResult.since] # syncResult.transactionTimeHash
    /\ Len(chain) = MaxHeight

SuppliedAbove(c) ==
    {d \in BagToSet(documents) :
        /\ d \in MongoOperationsOf(lastPut[c].operations)
        /\ TxnOf(d) > lastPut[c].rollback}

\* C12: once a put and a delete(n) that completed after the put began have
\* both completed, whatever their interleaving, the collection holds no
\* document of a transaction number greater than n that the put supplied.
C12_PutCannotReinsert ==
    \A c \in Clients :
        (/\ call[c].name = "put"
         /\ Idle(c)
         /\ lastPut[c].rollback # Undefined)
            => SuppliedAbove(c) = {}

\* C12, amended: once a put and a delete(n) that began after the put had
\* completed have both completed, the collection holds no document of a
\* transaction number greater than n that the put supplied.
C12_SequencedPutStaysRolledBack ==
    \A c \in Clients :
        (/\ call[c].name = "put"
         /\ Idle(c)
         /\ lastPut[c].rollback # Undefined
         /\ ~lastPut[c].crossed)
            => SuppliedAbove(c) = {}

\* A put of a transaction-1 and a transaction-2 operation had returned when
\* delete(1) removed the latter.
C12_Witness ==
    /\ call["c1"].name = "put"
    /\ call["c1"].status = "returned"
    /\ lastPut["c1"].rollback = 1
    /\ ~lastPut["c1"].crossed
    /\ \E i \in 1 .. Len(lastPut["c1"].operations) :
          lastPut["c1"].operations[i].transactionNumber = 2
    /\ call["c2"].name = "delete"
    /\ call["c2"].value[1] >= 1
    /\ documents # EmptyBag

\* The operations are of distinct keys, all of transactions after n.
CanonicalAfter(operations, n) ==
    /\ \A i \in 1 .. Len(operations) : operations[i].transactionNumber > n
    /\ \A i, j \in 1 .. Len(operations) :
          IndexKey(convertToMongoOperation(operations[i]))
              = IndexKey(convertToMongoOperation(operations[j])) => i = j

\* C13: when delete(n), n = 0 included, has completed and the put that
\* follows it, of the canonical chain's operations of transactions after n,
\* has returned, the collection holds the documents stored before the
\* delete of transactions up to n, the canonical operations' documents, and
\* nothing else.
C13_Reconciliation ==
    \A c \in Clients :
        (/\ call[c].name = "put"
         /\ call[c].status = "returned"
         /\ lastPut[c].stage = "resynced"
         /\ CanonicalAfter(lastPut[c].operations, lastPut[c].checkpoint))
            => documents
                 = FilterBag(lastPut[c].base,
                             LAMBDA d : TxnOf(d) <= lastPut[c].checkpoint)
                     (+) SetToBag(MongoOperationsOf(lastPut[c].operations))

\* The operations of a put whose key was not stored when the put began and
\* that no earlier operation of the batch shares.
NewOperations(c) ==
    {lastPut[c].operations[i] : i \in
        {k \in 1 .. Len(lastPut[c].operations) :
            /\ IndexKey(convertToMongoOperation(lastPut[c].operations[k]))
                  \notin lastPut[c].keys
            /\ \A j \in 1 .. k - 1 :
                  IndexKey(convertToMongoOperation(lastPut[c].operations[j]))
                      # IndexKey(convertToMongoOperation(lastPut[c].operations[k]))}}

\* C14: when a put on an initialized store has completed, the storage layer
\* having reported no failure but duplicate keys, it has returned without
\* throwing and every operation of its batch whose key was new is stored,
\* whatever its position among operations whose keys were stored already.
C14_PutInsertsAllNew ==
    \A c \in Clients :
        (call[c].name = "put" /\ Idle(c) /\ call[c].error # "TypeError")
            => /\ call[c].status = "returned"
               /\ \A operation \in NewOperations(c) :
                     convertToMongoOperation(operation) \in BagToSet(documents)

\* A put of a stored operation followed by a new one has returned: the
\* storage layer refused the first as a duplicate and wrote the second.
C14_Witness ==
    /\ call["c1"].name = "put"
    /\ call["c1"].status = "returned"
    /\ writeErrors["c1"] = <<DuplicateKeyCode>>
    /\ Len(lastPut["c1"].operations) = 2
    /\ IndexKey(convertToMongoOperation(lastPut["c1"].operations[1])) \in lastPut["c1"].keys
    /\ lastPut["c1"].operations[2] \in NewOperations("c1")
    /\ BagCardinality(documents) >= 2

\* The fields of an Operation the store persists.
SameRecord(a, b) ==
    /\ a.didUniqueSuffix = b.didUniqueSuffix
    /\ a.operationBuffer = b.operationBuffer
    /\ a.operationIndex = b.operationIndex
    /\ a.transactionNumber = b.transactionNumber
    /\ a.transactionTime = b.transactionTime
    /\ a.batchFileHash = b.batchFileHash

\* C15: a get that follows a returned put yields, for every operation of
\* its DID that the put supplied and whose key the store did not hold, an
\* operation of the same didUniqueSuffix, operationBuffer, operationIndex,
\* transactionNumber, transactionTime and batchFileHash.
C15_PutGetRoundTrip ==
    [][\A c \in Clients, did \in DIDs :
          (/\ call[c].name = "put"
           /\ call[c].status = "returned"
           /\ call'[c].name = "get"
           /\ get(c, did))
              => \A operation \in NewOperations(c) :
                    operation.didUniqueSuffix = did
                        => \E i \in 1 .. Len(call'[c].value) :
                              SameRecord(call'[c].value[i], operation)]_vars

\* get has returned, right after a put of two operations of new keys, the
\* two operations put.
C15_Witness ==
    /\ call["c1"].name = "get"
    /\ call["c1"].status = "returned"
    /\ call["c1"].didUniqueSuffix = "did1"
    /\ Cardinality(NewOperations("c1")) = 2
    /\ Len(call["c1"].value) = 2
    /\ \A operation \in NewOperations("c1") :
          \E i \in 1 .. 2 : SameRecord(call["c1"].value[i], operation)
    /\ \E operation \in NewOperations("c1") : operation.batchFileHash = "QmB"

\* C16: get(d) on an initialized store returns, without throwing, the
\* stored documents whose didUniqueSuffix is d, each as many times as it is
\* stored, and nothing else; the empty array when none is stored.
C16_GetExactlyTheDid ==
    [][\A c \in Clients, did \in DIDs :
          (/\ collection # NoCollection
           /\ call'[c].name = "get"
           /\ call'[c].didUniqueSuffix = did
           /\ get(c, did))
              => /\ call'[c].status = "returned"
                 /\ \A i \in 1 .. Len(call'[c].value) :
                       /\ call'[c].value[i].didUniqueSuffix = did
                       /\ convertToMongoOperation(call'[c].value[i]) \in BagToSet(documents)
                 /\ \A d \in BagToSet(documents) :
                       Cardinality({i \in 1 .. Len(call'[c].value) :
                                       convertToMongoOperation(call'[c].value[i]) = d})
                           = IF d.didUniqueSuffix = did THEN documents[d] ELSE 0]_vars

\* get("did1") has returned two operations while the collection holds a
\* third document, of the other DID.
C16_Witness ==
    /\ call["c1"].name = "get"
    /\ call["c1"].status = "returned"
    /\ call["c1"].didUniqueSuffix = "did1"
    /\ Len(call["c1"].value) = 2
    /\ BagCardinality(documents) = 3
    /\ \E d \in BagToSet(documents) : d.didUniqueSuffix = "did2"

\* C17: a step of get leaves the collection as it is, and a step of put
\* leaves every stored document stored, as it is and as many times: a put
\* of an operation whose key is stored with another operationBuffer,
\* transactionTime or batchFileHash does not change the stored document.
C17_OnlyRollbackRemoves ==
    [][\A c \in Clients :
          /\ (call'[c].name = "get" /\ \E did \in DIDs : get(c, did))
                 => documents' = documents
          /\ (/\ call'[c].name = "put"
              /\ (call'[c] # call[c] \/ batch'[c] # batch[c]))
                 => \A d \in BagToSet(documents) :
                       /\ d \in BagToSet(documents')
                       /\ documents'[d] >= documents[d]]_vars

\* A put of an operation whose key was stored with another content has
\* returned: the storage layer refused it and the stored document stands.
C17_Witness ==
    /\ call["c1"].name = "put"
    /\ call["c1"].status = "returned"
    /\ writeErrors["c1"] = <<DuplicateKeyCode>>
    /\ Len(lastPut["c1"].operations) = 1
    /\ convertToMongoOperation(lastPut["c1"].operations[1]) \notin BagToSet(documents)
    /\ \E d \in BagToSet(documents) :
          IndexKey(d) = IndexKey(convertToMongoOperation(lastPut["c1"].operations[1]))

Min(m, n) == IF m <= n THEN m ELSE n

\* C19: delete(m) called right after delete(n) has returned, m and n given,
\* leaves the collection as a single delete(Min(m, n)) would have left the
\* collection the first delete found; with m = n, as the first delete left it.
C19_RollbackComposes ==
    [][\A c \in Clients, m \in TxnNumbers :
          (/\ collection # NoCollection
           /\ call[c].name = "delete"
           /\ call[c].status = "returned"
           /\ reconcilingDelete(c, m))
              => /\ documents'
                      = deleteMany(lastPut[c].base, Min(m, call[c].transactionNumber))
                 /\ m = call[c].transactionNumber => documents' = documents]_vars

\* delete(1) has returned right after delete(2): it removed a document
\* that delete(2) had left, and left another.
C19_Witness ==
    /\ call["c1"].name = "delete"
    /\ call["c1"].status = "returned"
    /\ call["c1"].transactionNumber = 1
    /\ call["c1"].value[1] >= 1
    /\ lastPut["c1"].previous = 2
    /\ collection # NoCollection
    /\ documents # EmptyBag

====
